---- MODULE Spec2Model ----
\* Verification model of the slide puzzle: the puzzle state (State in
\* src/src/main.rs, Cell and Piece in src/src/lib.rs), main's shuffle and
\* play loops, and the three solvers BFSSolver, AStarSolver and MySolver.
\*
\* Representation.  A Cell is the pair <<x, y>>.  Option<Piece> is a natural
\* number: 0 is None (the blank), k > 0 is Some(Piece { num: k }).  The vector
\* pieces is a sequence; the element at the 0-based index i of the code is
\* pieces[i + 1] here.
EXTENDS Integers, Sequences, FiniteSets, TLC

\* ------------------------------------------------------------------ bounds
\* Boards have at most MaxCells cells (rows * cols <= MaxCells).
MaxCells == 6
\* shuffle() draws n from 500..=1000; the model cuts the number of passes of
\* its loop at MaxShuffle.
MaxShuffle == 8
\* Number of calls the State interface receives in SpecApi.
MaxCalls == 4
\* Boards of SpecRoutes have at most RouteMaxCells cells, and its masks
\* freeze at most MaxFrozen of them.
RouteMaxCells == 9
MaxFrozen == 3

VARIABLES
    rows,        \* cli.rows
    cols,        \* cli.cols
    state,       \* main's `state: State`
    pc,          \* position in main, in play_with_ai and in the running solver
    nslides,     \* passes of shuffle's loop executed so far
    ncalls,      \* swap calls made directly on the State interface (SpecApi)
    call,        \* arguments <<cell1, cell2>> of the latest swap call on `state`
    q,           \* BFSSolver: the VecDeque q; AStarSolver: the BinaryHeap pq
    memo,        \* the HashMap memo of the running BFSSolver / AStarSolver
    ret,         \* the Vec<Cell> each solver's solve() returned
    ran,         \* the solvers whose solve() has returned
    fallback,    \* the solvers that returned by the `vec![]` after their loop
    my,          \* MySolver: self.states and the locals of solve and move_to
    moves,       \* play_with_ai: the moves being applied
    mi,          \* play_with_ai: moves consumed so far by moves.next()
    fr,          \* a find_routes call: its arguments and the value returned
    keys,        \* two state_string calls: the two states and the Strings returned
    click        \* manual play: the latest pressed cell and the answer it got

vars == <<rows, cols, state, pc, nslides, ncalls, call, q, memo, ret, ran,
          fallback, my, moves, mi, fr, keys, click>>

\* ------------------------------------------------------- Cell (src/src/lib.rs)
\* Cell::as_index
as_index(c, r, co) == c[2] * co + c[1]

\* cell!(idx, rows, cols)
cell3(idx, r, co) == <<idx % co, idx \div co>>

Abs(n) == IF n < 0 THEN -n ELSE n

\* Cells of a rows x cols board.
Cells(r, co) == {<<x, y>> : x \in 0..(co - 1), y \in 0..(r - 1)}

\* ------------------------------------------------------ State (src/src/main.rs)
NoCell == <<0 - 1, 0 - 1>>
NoState == [pieces |-> <<>>, rows |-> 0, cols |-> 0, blank_cell |-> NoCell]

\* State::new without line 39: the last entry keeps its piece.
StateNew_no_blank(r, co) ==
    LET blank_index == r * co - 1
    IN  [pieces     |-> [i \in 1..(blank_index + 1) |-> i],
         rows       |-> r,
         cols       |-> co,
         blank_cell |-> cell3(blank_index, r, co)]

\* State::new for rows * cols >= 1.
StateNew(r, co) ==
    LET blank_index == r * co - 1
    IN  [pieces     |-> [i \in 1..(blank_index + 1) |->
                            IF i - 1 = blank_index THEN 0 ELSE i],
         rows       |-> r,
         cols       |-> co,
         blank_cell |-> cell3(blank_index, r, co)]

\* State::new panics when rows * cols = 0: `rows * cols - 1` underflows usize.
\* A debug build panics on the subtraction; a release build wraps to
\* usize::MAX and the collect of 0..=usize::MAX panics with a capacity
\* overflow.  Either way no State is returned.
NewPanics(r, co) == r * co = 0

\* State::get_index
get_index(s, c) == as_index(c, s.rows, s.cols)

\* State::get_piece
get_piece(s, c) == s.pieces[get_index(s, c) + 1]

\* neighbors_at with the four diagonal cells added to the four directions.
neighbors_at_diagonal(s, x, y) ==
    LET dx == <<0, 0 - 1, 1, 0, 0 - 1, 1, 0 - 1, 1>>
        dy == <<0 - 1, 0, 0, 1, 0 - 1, 0 - 1, 1, 1>>
    IN  SelectSeq([k \in 1..8 |-> <<x + dx[k], y + dy[k]>>],
                  LAMBDA c : c[1] >= 0 /\ c[2] >= 0 /\ c[1] < s.cols /\ c[2] < s.rows)

\* State::neighbors_at: the in-bounds cells among up, left, right, down, in
\* that order.
neighbors_at(s, x, y) ==
    LET dx == <<0, 0 - 1, 1, 0>>
        dy == <<0 - 1, 0, 0, 1>>
    IN  SelectSeq([k \in 1..4 |-> <<x + dx[k], y + dy[k]>>],
                  LAMBDA c : c[1] >= 0 /\ c[2] >= 0 /\ c[1] < s.cols /\ c[2] < s.rows)

\* State::neighbors
neighbors(s, c) == neighbors_at(s, c[1], c[2])

\* The assertion of State::swap looking at cell1 only.
SwapAssert_first_only(s, cell1, cell2) == s.blank_cell = cell1

\* The assertion at the head of State::swap.
SwapAssert(s, cell1, cell2) == s.blank_cell = cell1 \/ s.blank_cell = cell2

\* Vec::swap on 1-based positions.
VecSwap(v, i, j) == [k \in DOMAIN v |-> IF k = i THEN v[j] ELSE IF k = j THEN v[i] ELSE v[k]]

\* State::swap taking cell1 for the blank without looking (blank_cell always
\* becomes cell2).
swap_blank_to_second(s, cell1, cell2) ==
    LET idx1 == as_index(cell1, s.rows, s.cols)
        idx2 == as_index(cell2, s.rows, s.cols)
    IN  [s EXCEPT !.pieces = VecSwap(s.pieces, idx1 + 1, idx2 + 1),
                  !.blank_cell = cell2]

\* State::swap when its assertion passes.
swap(s, cell1, cell2) ==
    LET idx1 == get_index(s, cell1)
        idx2 == get_index(s, cell2)
    IN  [s EXCEPT !.pieces = VecSwap(s.pieces, idx1 + 1, idx2 + 1),
                  !.blank_cell = IF s.blank_cell = cell1 THEN cell2 ELSE cell1]

\* is_finished looking at blank_cell only.
is_finished_blank_only(s) == s.blank_cell = <<s.cols - 1, s.rows - 1>>

\* State::is_finished
is_finished(s) ==
    /\ s.blank_cell = <<s.cols - 1, s.rows - 1>>
    /\ \A i \in 0..(Len(s.pieces) - 1) :
          IF s.pieces[i + 1] # 0
          THEN i = s.pieces[i + 1] - 1
          ELSE i = s.rows * s.cols - 1

\* State::find_piece: the cell of the first index holding `needle`.  The
\* unreachable!() after the loop is the value NoCell.
find_piece(s, needle) ==
    LET hits == {i \in 0..(Len(s.pieces) - 1) : s.pieces[i + 1] = needle}
    IN  IF hits = {}
        THEN NoCell
        ELSE cell3(CHOOSE i \in hits : \A j \in hits : i <= j, s.rows, s.cols)

\* format!("{}", n): the decimal digits of n, most significant first.
DigitChar == <<"0", "1", "2", "3", "4", "5", "6", "7", "8", "9">>

RECURSIVE Decimal(_)
Decimal(n) ==
    IF n < 10 THEN <<DigitChar[n + 1]>>
    ELSE Decimal(n \div 10) \o <<DigitChar[(n % 10) + 1]>>

\* format!("{:02}", n): zero-padded to a width of at least two.
Format02(n) == IF n < 10 THEN <<"0">> \o Decimal(n) ELSE Decimal(n)

\* join("") for join(","): the fields one after the other.
RECURSIVE JoinPlain(_)
JoinPlain(fields) ==
    IF Len(fields) = 0 THEN <<>>
    ELSE fields[1] \o JoinPlain(Tail(fields))

\* State::state_string: the fields "00" (blank) or {:02} of the piece number,
\* joined by ",".  A String is the sequence of its characters.
RECURSIVE JoinComma(_)
JoinComma(fields) ==
    IF Len(fields) = 0 THEN <<>>
    ELSE IF Len(fields) = 1 THEN fields[1]
    ELSE fields[1] \o <<",">> \o JoinComma(Tail(fields))

state_string(s) ==
    JoinComma([i \in 1..Len(s.pieces) |->
                  IF s.pieces[i] # 0 THEN Format02(s.pieces[i]) ELSE <<"0", "0">>])

\* movable_position answering with the first neighbour of the cell, whether
\* or not it is the blank.
movable_position_first(s, c) ==
    LET ns == neighbors(s, c)
    IN  IF Len(ns) = 0 THEN NoCell ELSE ns[1]

\* State::movable_position: the first neighbour of the cell that equals
\* blank_cell; NoCell is None.
movable_position(s, c) ==
    LET hits == SelectSeq(neighbors(s, c), LAMBDA n : n = s.blank_cell)
    IN  IF Len(hits) = 0 THEN NoCell ELSE hits[1]

\* HashMap::insert
MapInsert(m, k, v) == (k :> v) @@ m

\* HashMap::new
EmptyMap == <<>>

\* ------------------------------------------------------------------ BFSSolver
\* The pushed entries with the cell the blank leaves recorded in routes
\* instead of the cell it moves to.
Successors_blank_pushed(st, routes) ==
    LET ns == neighbors(st, st.blank_cell)
    IN  [k \in 1..Len(ns) |->
            [state  |-> swap(st, st.blank_cell, ns[k]),
             routes |-> Append(routes, st.blank_cell)]]

\* The entries a dequeued state pushes: one per neighbour of its blank, in
\* the order of neighbors (lines 414-422 and 349-358).
Successors(st, routes) ==
    LET ns == neighbors(st, st.blank_cell)
    IN  [k \in 1..Len(ns) |->
            [state |-> swap(st, st.blank_cell, ns[k]), routes |-> Append(routes, ns[k])]]

\* A pass that pushes the new entries at the front of the queue (push_front
\* for push_back).
BFSStep_lifo(qu, mm, expected) ==
    LET st     == Head(qu).state
        routes == Head(qu).routes
        s      == state_string(st)
    IN  IF st.pieces = expected.pieces
        THEN [done |-> TRUE, routes |-> routes, q |-> Tail(qu), memo |-> mm]
        ELSE IF s \in DOMAIN mm /\ mm[s] < Len(routes)
        THEN [done |-> FALSE, routes |-> <<>>, q |-> Tail(qu), memo |-> mm]
        ELSE [done |-> FALSE, routes |-> <<>>,
              q    |-> Successors(st, routes) \o Tail(qu),
              memo |-> MapInsert(mm, s, Len(routes))]

\* A pass whose expansion pushes nothing (the for loop at lines 414-422
\* left out).
BFSStep_no_push(qu, mm, expected) ==
    LET st     == Head(qu).state
        routes == Head(qu).routes
        s      == state_string(st)
    IN  IF st.pieces = expected.pieces
        THEN [done |-> TRUE, routes |-> routes, q |-> Tail(qu), memo |-> mm]
        ELSE IF s \in DOMAIN mm /\ mm[s] < Len(routes)
        THEN [done |-> FALSE, routes |-> <<>>, q |-> Tail(qu), memo |-> mm]
        ELSE [done |-> FALSE, routes |-> <<>>,
              q    |-> Tail(qu),
              memo |-> MapInsert(mm, s, Len(routes))]

\* One pass of the while loop of BFSSolver::solve_with_expected (lines
\* 401-423) on a non-empty queue: done with the routes returned at line 403,
\* or the queue and memo the next pass starts from.
BFSStep(qu, mm, expected) ==
    LET st     == Head(qu).state
        routes == Head(qu).routes
        s      == state_string(st)
    IN  IF st.pieces = expected.pieces
        THEN [done |-> TRUE, routes |-> routes, q |-> Tail(qu), memo |-> mm]
        ELSE IF s \in DOMAIN mm /\ mm[s] < Len(routes)
        THEN [done |-> FALSE, routes |-> <<>>, q |-> Tail(qu), memo |-> mm]
        ELSE [done |-> FALSE, routes |-> <<>>,
              q    |-> Tail(qu) \o Successors(st, routes),
              memo |-> MapInsert(mm, s, Len(routes))]

\* ---------------------------------------------------------------- AStarSolver
\* Cell::manhattan_distance, called at line 373; its definition is not in
\* src/src/lib.rs: |dx| + |dy| as the specification's glossary gives it.
manhattan_distance(a, b) == Abs(a[1] - b[1]) + Abs(a[2] - b[2])

\* AStarSolver::heuristic: over every index i of the board, the distance
\* from cell i to the cell of `current` holding what `expected` holds at i
\* (the blank included: find_piece(None) is the blank's cell).
RECURSIVE SumTo(_, _)
SumTo(f, n) == IF n = 0 THEN 0 ELSE f[n] + SumTo(f, n - 1)

heuristic(expected, current) ==
    LET n == current.rows * current.cols
        d == [k \in 1..n |->
                 LET c == cell3(k - 1, current.rows, current.cols)
                 IN  manhattan_distance(c, find_piece(current, get_piece(expected, c)))]
    IN  SumTo(d, n)

max_cost == 10000000

\* A `let` of the code: v is computed once and Op reads the value.
With(v, Op(_)) == CHOOSE r \in {Op(x) : x \in {v}} : TRUE

\* `a <= b` on the heap's entries (usize, State, Vec<Cell>): the tuple order
\* is lexicographic, and State::cmp (lines 21-31) answers Greater for every
\* pair of states, so a is below b only when its first component is smaller.
EntryLe(a, b) == a.cost < b.cost

\* BinaryHeap over a vector `data`; the code's 0-based position p is
\* data[p + 1].  sift_up: the element e taken from the hole at pos rises while
\* it is not <= its parent.
RECURSIVE SiftUpHole(_, _, _, _)
SiftUpHole(data, e, start, pos) ==
    IF pos > start
    THEN LET parent == (pos - 1) \div 2
         IN  IF EntryLe(e, data[parent + 1])
             THEN [data EXCEPT ![pos + 1] = e]
             ELSE With([data EXCEPT ![pos + 1] = data[parent + 1]],
                       LAMBDA moved : With(parent, LAMBDA hole : SiftUpHole(moved, e, start, hole)))
    ELSE [data EXCEPT ![pos + 1] = e]

\* sift_down_to_bottom: the hole at pos sinks to a leaf along the greater
\* children (the right child when left <= right), then e rises from there.
RECURSIVE SiftDownHole(_, _, _, _)
SiftDownHole(data, e, start, pos) ==
    LET end   == Len(data)
        child == 2 * pos + 1
    IN  IF end >= 2 /\ child <= end - 2
        THEN LET c == IF EntryLe(data[child + 1], data[child + 2]) THEN child + 1 ELSE child
             IN  With(c, LAMBDA hole :
                     With([data EXCEPT ![pos + 1] = data[hole + 1]],
                          LAMBDA moved : SiftDownHole(moved, e, start, hole)))
        ELSE IF child = end - 1
        THEN SiftUpHole([data EXCEPT ![pos + 1] = data[child + 1]], e, start, child)
        ELSE SiftUpHole(data, e, start, pos)

\* BinaryHeap::push (lines 333 and 357)
HeapPush(data, item) == SiftUpHole(Append(data, item), item, 0, Len(data))

\* BinaryHeap::pop (line 336) on a non-empty heap: the entry returned and the
\* heap left.
HeapPop(data) ==
    LET last == data[Len(data)]
        rest == SubSeq(data, 1, Len(data) - 1)
    IN  IF Len(rest) = 0
        THEN [item |-> last, data |-> rest]
        ELSE [item |-> rest[1], data |-> SiftDownHole(rest, last, 0, 0)]

RECURSIVE HeapPushAll(_, _)
HeapPushAll(data, items) ==
    IF Len(items) = 0 THEN data
    ELSE With(HeapPush(data, Head(items)), LAMBDA pushed : HeapPushAll(pushed, Tail(items)))

\* The entries pushed for a popped state (lines 349-358).
AStarSuccessors(st, routes, expected) ==
    LET succ == Successors(st, routes)
    IN  [k \in 1..Len(succ) |->
            With(succ[k], LAMBDA next :
                 [cost   |-> max_cost - heuristic(expected, next.state),
                  state  |-> next.state,
                  routes |-> next.routes])]

\* One pass of the while loop of AStarSolver::solve_with_expected (lines
\* 336-359) on a non-empty heap: done with the routes returned at line 338, or
\* the heap and memo the next pass starts from.
AStarStep(pq, mm, expected) ==
    With(HeapPop(pq), LAMBDA p :
    LET cost   == p.item.cost
        st     == p.item.state
        routes == p.item.routes
        s      == state_string(st)
    IN  IF cost = max_cost
        THEN [done |-> TRUE, routes |-> routes, q |-> p.data, memo |-> mm]
        ELSE IF s \in DOMAIN mm /\ mm[s] < Len(routes)
        THEN [done |-> FALSE, routes |-> <<>>, q |-> p.data, memo |-> mm]
        ELSE [done |-> FALSE, routes |-> <<>>,
              q    |-> With(AStarSuccessors(st, routes, expected),
                            LAMBDA items : HeapPushAll(p.data, items)),
              memo |-> MapInsert(mm, s, Len(routes))])

\* ------------------------------------------------------------------- MySolver
\* The for loop over k = 0..3 of MySolver::find_routes (lines 254-284) for the
\* dequeued entry (current, routes): queue q and memo after direction k and
\* the ones after it.  A cell first seen is marked in memo before the
\* constraints are looked at (line 275).
RECURSIVE RouteExpand(_, _, _, _, _, _)
RouteExpand(s, current, routes, constraints, qm, k) ==
    IF k > 4
    THEN qm
    ELSE LET dx == <<1, 0, 0 - 1, 0>>
             dy == <<0, 1, 0, 0 - 1>>
             nx == dx[k] + current[1]
             ny == dy[k] + current[2]
         IN  IF nx < 0 \/ ny < 0 \/ nx >= s.cols \/ ny >= s.rows
             THEN RouteExpand(s, current, routes, constraints, qm, k + 1)
             ELSE LET next     == <<nx, ny>>
                      next_idx == get_index(s, next)
                  IN  IF qm.memo[next_idx + 1]
                      THEN RouteExpand(s, current, routes, constraints, qm, k + 1)
                      ELSE LET memo2 == [qm.memo EXCEPT ![next_idx + 1] = TRUE]
                           IN  IF constraints[next_idx + 1]
                               THEN RouteExpand(s, current, routes, constraints,
                                                [q |-> qm.q, memo |-> memo2], k + 1)
                               ELSE RouteExpand(s, current, routes, constraints,
                                                [q    |-> Append(qm.q, [cell   |-> next,
                                                                        routes |-> Append(routes, next)]),
                                                 memo |-> memo2], k + 1)

\* The while loop of MySolver::find_routes (lines 247-286).
RECURSIVE RouteLoop(_, _, _, _)
RouteLoop(s, end, constraints, qm) ==
    IF Len(qm.q) = 0
    THEN <<>>
    ELSE LET current == Head(qm.q).cell
             routes  == Head(qm.q).routes
         IN  IF current = end
             THEN routes
             ELSE RouteLoop(s, end, constraints,
                            RouteExpand(s, current, routes, constraints,
                                        [q |-> Tail(qm.q), memo |-> qm.memo], 1))

\* find_routes without the test at line 277: frozen cells are walked over.
find_routes_ignores_mask(s, start, end, constraints) ==
    RouteLoop(s, end, [i \in 1..Len(constraints) |-> FALSE],
              [q    |-> <<[cell |-> start, routes |-> <<>>]>>,
               memo |-> [i \in 1..Len(constraints) |-> FALSE]])

\* MySolver::find_routes on the board of s (only s.rows and s.cols are read).
find_routes(s, start, end, constraints) ==
    RouteLoop(s, end, constraints,
              [q    |-> <<[cell |-> start, routes |-> <<>>]>>,
               memo |-> [i \in 1..Len(constraints) |-> FALSE]])

\* MySolver::find_target_num: the cell of the first index holding piece num;
\* NoCell stands for the unreachable!() after the loop.
find_target_num(s, num) ==
    LET hits == {i \in 0..(Len(s.pieces) - 1) : s.pieces[i + 1] = num}
    IN  IF hits = {}
        THEN NoCell
        ELSE cell3(CHOOSE i \in hits : \A j \in hits : i <= j, s.rows, s.cols)

\* MySolver::is_correct_place
is_correct_place(s, c) ==
    IF get_piece(s, c) # 0
    THEN get_piece(s, c) - 1 = as_index(c, s.rows, s.cols)
    ELSE c = <<s.cols - 1, s.rows - 1>>

Min(a, b) == IF a < b THEN a ELSE b

\* The cells pushed for layer i (lines 196-201): row i from x = i, then
\* column i from y = i + 1.
LayerTargets(s, i) ==
    [k \in 1..(s.cols - i) |-> <<i + k - 1, i>>]
        \o [k \in 1..(s.rows - i - 1) |-> <<i, i + k>>]

RECURSIVE TargetsFrom(_, _, _)
TargetsFrom(s, i, depth) ==
    IF i >= depth THEN <<>> ELSE LayerTargets(s, i) \o TargetsFrom(s, i + 1, depth)

\* `targets` as built at lines 193-202.
AllTargets(s) == TargetsFrom(s, 0, Min(s.rows, s.cols) - 1)

\* The number of targets the loop at line 204 takes.
TakeCount == 4

\* targets.into_iter().take(4)
TakenTargets(s) ==
    LET ts == AllTargets(s)
    IN  SubSeq(ts, 1, Min(TakeCount, Len(ts)))

\* The swaps of lines 229-232: the blank is swapped along blank_routes.
RECURSIVE SwapAlong(_, _)
SwapAlong(s, cells) ==
    IF Len(cells) = 0 THEN s
    ELSE SwapAlong(swap(s, s.blank_cell, Head(cells)), Tail(cells))

\* One pass of the for loop of MySolver::move_to (lines 226-238) for the
\* route cell next, from the solver's state s, the piece's presumed cell
\* current and the mask constraints: the state, the mask and the swaps pushed
\* to ans.
MoveToPass(s, current, next, constraints) ==
    LET cur_idx      == get_index(s, current)
        blocked      == [constraints EXCEPT ![cur_idx + 1] = TRUE]
        blank_routes == find_routes(s, s.blank_cell, next, blocked)
        s1           == SwapAlong(s, blank_routes)
    IN  [states      |-> swap(s1, s1.blank_cell, current),
         constraints |-> [blocked EXCEPT ![cur_idx + 1] = FALSE],
         pushed      |-> Append(blank_routes, current)]

\* ------------------------------------------------------------------- main
\* MySolver's fields and locals while no MySolver runs.
MyIdle ==
    [states  |-> NoState,   \* self.states
     moved   |-> <<>>,      \* solve: moved (move_to: constraints)
     targets |-> <<>>,      \* solve: the targets taken
     ti      |-> 0,         \* solve: number of targets the loop is done with
     ans     |-> <<>>,      \* solve: ans
     current |-> NoCell,    \* move_to: current
     routes  |-> <<>>,      \* move_to: the part of routes not yet iterated
     tmp     |-> <<>>]      \* move_to: ans

NoCall == [start |-> NoCell, end |-> NoCell, constraints |-> <<>>, routes |-> <<>>]

NoRet == [bfs |-> <<>>, astar |-> <<>>, my |-> <<>>]

NoKeys == [a |-> NoState, b |-> NoState, sa |-> <<>>, sb |-> <<>>]

\* `None` of Option<Cell> is NoCell.
NoClick == [cell |-> NoCell, move_to |-> NoCell]

Init ==
    /\ rows \in 0..MaxCells
    /\ cols \in 0..MaxCells
    /\ rows * cols <= MaxCells
    /\ state = NoState
    /\ pc = "new"
    /\ nslides = 0
    /\ ncalls = 0
    /\ call = <<>>
    /\ q = <<>>
    /\ memo = EmptyMap
    /\ ret = NoRet
    /\ ran = {}
    /\ fallback = {}
    /\ my = MyIdle
    /\ moves = <<>>
    /\ mi = 0
    /\ fr = NoCall
    /\ keys = NoKeys
    /\ click = NoClick

\* main, line 515: let mut state = State::new(rows, cols);
New ==
    /\ pc = "new"
    /\ IF NewPanics(rows, cols)
       THEN /\ pc' = "panicked"
            /\ state' = state
       ELSE /\ pc' = "shuffle"
            /\ state' = StateNew(rows, cols)
    /\ UNCHANGED <<keys, click, rows, cols, nslides, ncalls, call, q, memo, ret, ran,
                   fallback, my, moves, mi, fr>>

\* One pass of the loop of State::shuffle (lines 100-104): a uniformly chosen
\* neighbour of the blank is swapped with it; with no neighbour (1x1) the
\* pass does nothing.
ShuffleStep ==
    /\ pc = "shuffle"
    /\ nslides < MaxShuffle
    /\ nslides' = nslides + 1
    /\ LET ns == neighbors(state, state.blank_cell)
       IN  IF Len(ns) = 0
           THEN UNCHANGED <<state, call>>
           ELSE \E k \in 1..Len(ns) :
                   /\ state' = swap(state, state.blank_cell, ns[k])
                   /\ call' = <<state.blank_cell, ns[k]>>
    /\ UNCHANGED <<keys, click, rows, cols, pc, ncalls, q, memo, ret, ran, fallback, my,
                   moves, mi, fr>>

\* BFSSolver::new(state.clone()) and the head of solve_with_expected (lines
\* 395-400).  main reaches play_with_ai with an unfinished state only; solve's
\* contract covers every state reached by slides, the solved one included, so
\* a solver is started from any of them.  play_with_ai picks the solver by the
\* board's size (lines 459-465); here each solver is started on every board.
BFSSolve ==
    /\ pc = "shuffle"
    /\ pc' = "bfs"
    /\ q' = <<[state |-> state, routes |-> <<>>]>>
    /\ memo' = EmptyMap
    /\ UNCHANGED <<keys, click, rows, cols, state, nslides, ncalls, call, ret, ran,
                   fallback, my, moves, mi, fr>>

\* One pass of BFSSolver's while loop, or the return after it (line 425).
BFSLoop ==
    /\ pc = "bfs"
    /\ IF Len(q) = 0
       THEN /\ ret' = [ret EXCEPT !.bfs = <<>>]
            /\ fallback' = fallback \cup {"bfs"}
            /\ ran' = ran \cup {"bfs"}
            /\ pc' = "returned"
            /\ UNCHANGED <<q, memo>>
       ELSE \E expected \in {StateNew(rows, cols)} :
            \E r \in {BFSStep(q, memo, expected)} :
                /\ q' = r.q
                /\ memo' = r.memo
                /\ IF r.done
                   THEN /\ ret' = [ret EXCEPT !.bfs = r.routes]
                        /\ ran' = ran \cup {"bfs"}
                        /\ pc' = "returned"
                   ELSE UNCHANGED <<ret, ran, pc>>
                /\ UNCHANGED fallback
    /\ UNCHANGED <<keys, click, rows, cols, state, nslides, ncalls, call, my, moves, mi, fr>>

\* AStarSolver::new(state.clone()) and the head of solve_with_expected (lines
\* 328-335), on a fresh state or on the state BFSSolver has just solved.
AStarSolve ==
    /\ \/ pc = "shuffle"
       \/ pc = "returned" /\ ran = {"bfs"}
    /\ pc' = "astar"
    /\ q' = HeapPush(<<>>, [cost   |-> max_cost - heuristic(StateNew(rows, cols), state),
                            state  |-> state,
                            routes |-> <<>>])
    /\ memo' = EmptyMap
    /\ UNCHANGED <<keys, click, rows, cols, state, nslides, ncalls, call, ret, ran,
                   fallback, my, moves, mi, fr>>

\* One pass of AStarSolver's while loop, or the return after it (line 361).
AStarLoop ==
    /\ pc = "astar"
    /\ IF Len(q) = 0
       THEN /\ ret' = [ret EXCEPT !.astar = <<>>]
            /\ fallback' = fallback \cup {"astar"}
            /\ ran' = ran \cup {"astar"}
            /\ pc' = "returned"
            /\ UNCHANGED <<q, memo>>
       ELSE \E expected \in {StateNew(rows, cols)} :
            \E r \in {AStarStep(q, memo, expected)} :
                /\ q' = r.q
                /\ memo' = r.memo
                /\ IF r.done
                   THEN /\ ret' = [ret EXCEPT !.astar = r.routes]
                        /\ ran' = ran \cup {"astar"}
                        /\ pc' = "returned"
                   ELSE UNCHANGED <<ret, ran, pc>>
                /\ UNCHANGED fallback
    /\ UNCHANGED <<keys, click, rows, cols, state, nslides, ncalls, call, my, moves, mi, fr>>

\* MySolver::new(state.clone()) and the head of solve (lines 184-202).
MySolve ==
    /\ pc = "shuffle"
    /\ pc' = "my"
    /\ my' = [MyIdle EXCEPT !.states = state,
                            !.moved = [i \in 1..(state.cols * state.rows) |-> FALSE],
                            !.targets = TakenTargets(state)]
    /\ UNCHANGED <<keys, click, rows, cols, state, nslides, ncalls, call, q, memo, ret,
                   ran, fallback, moves, mi, fr>>

\* MySolver::solve, one pass of the loop at line 204 up to its `continue` or
\* into move_to (up to line 225), or the return at line 218.
MySolveLoop ==
    /\ pc = "my"
    /\ IF my.ti >= Len(my.targets)
       THEN /\ ret' = [ret EXCEPT !.my = my.ans]
            /\ ran' = ran \cup {"my"}
            /\ pc' = "returned"
            /\ UNCHANGED my
       ELSE LET target == my.targets[my.ti + 1]
            IN  /\ IF is_correct_place(my.states, target)
                   THEN /\ my' = [my EXCEPT
                                     !.moved[get_index(my.states, target) + 1] = TRUE,
                                     !.ti = my.ti + 1]
                        /\ pc' = pc
                   ELSE LET target_num == get_index(my.states, target) + 1
                            current_target_cell == find_target_num(my.states, target_num)
                        IN  /\ my' = [my EXCEPT
                                         !.current = current_target_cell,
                                         !.routes = find_routes(my.states, current_target_cell,
                                                                target, my.moved),
                                         !.tmp = <<>>]
                            /\ pc' = "move_to"
                /\ UNCHANGED <<ret, ran>>
    /\ UNCHANGED <<keys, click, rows, cols, state, nslides, ncalls, call, q, memo,
                   fallback, moves, mi, fr>>

\* MySolver::move_to, one pass of its loop (lines 226-238), or its return
\* and lines 214-215 of solve.
MoveToLoop ==
    /\ pc = "move_to"
    /\ IF Len(my.routes) = 0
       THEN /\ my' = [my EXCEPT
                         !.ans = my.ans \o my.tmp,
                         !.moved[get_index(my.states, my.targets[my.ti + 1]) + 1] = TRUE,
                         !.ti = my.ti + 1,
                         !.current = NoCell,
                         !.tmp = <<>>]
            /\ pc' = "my"
       ELSE LET next == Head(my.routes)
                r    == MoveToPass(my.states, my.current, next, my.moved)
            IN  /\ my' = [my EXCEPT
                             !.states = r.states,
                             !.moved = r.constraints,
                             !.tmp = my.tmp \o r.pushed,
                             !.current = next,
                             !.routes = Tail(my.routes)]
                /\ pc' = pc
    /\ UNCHANGED <<keys, click, rows, cols, state, nslides, ncalls, call, q, memo, ret,
                   ran, fallback, moves, mi, fr>>

\* play_with_ai, lines 467-469: the moves of a solver that has returned.
Play ==
    /\ pc = "returned"
    /\ \E kind \in ran :
          moves' = ret[kind]
    /\ mi' = 0
    /\ pc' = "play"
    /\ UNCHANGED <<keys, click, rows, cols, state, nslides, ncalls, call, q, memo, ret,
                   ran, fallback, my, fr>>

\* play_with_ai, lines 481-486: the next move is applied.
ApplyMove ==
    /\ pc = "play"
    /\ mi < Len(moves)
    /\ state' = swap(state, state.blank_cell, moves[mi + 1])
    /\ call' = <<state.blank_cell, moves[mi + 1]>>
    /\ mi' = mi + 1
    /\ UNCHANGED <<keys, click, rows, cols, pc, nslides, ncalls, q, memo, ret, ran,
                   fallback, my, moves, fr>>

Next ==
    \/ New
    \/ ShuffleStep
    \/ BFSSolve
    \/ BFSLoop
    \/ AStarSolve
    \/ AStarLoop
    \/ MySolve
    \/ MySolveLoop
    \/ MoveToLoop
    \/ Play
    \/ ApplyMove

Spec == Init /\ [][Next]_vars

\* A solver's while loop is sequential code on the thread that called solve:
\* while a pass can be made, the next pass is made.
SpecLive == Spec /\ WF_vars(BFSLoop) /\ WF_vars(AStarLoop)

\* ------------------------------------------------- the State interface alone
\* A call state.swap(a, b) with any two cells of the board: the assertion at
\* line 80 panics, before anything is written, unless one of them is the
\* blank.
SwapCall ==
    /\ pc = "shuffle"
    /\ ncalls + nslides < MaxCalls
    /\ \E a \in Cells(rows, cols), b \in Cells(rows, cols) :
          /\ call' = <<a, b>>
          /\ IF SwapAssert(state, a, b)
             THEN /\ state' = swap(state, a, b)
                  /\ pc' = pc
             ELSE /\ state' = state
                  /\ pc' = "panicked"
    /\ ncalls' = ncalls + 1
    /\ UNCHANGED <<keys, click, rows, cols, nslides, q, memo, ret, ran, fallback, my,
                   moves, mi, fr>>

\* A pass of shuffle's loop, within the call budget of SpecApi.
ShuffleCall ==
    /\ ncalls + nslides < MaxCalls
    /\ ShuffleStep

ApiNext == New \/ SwapCall \/ ShuffleCall

SpecApi == Init /\ [][ApiNext]_vars

\* ---------------------------------------------------------- find_routes alone
\* The masks of n cells with at most MaxFrozen frozen cells.
Masks(n) ==
    {m \in [1..n -> BOOLEAN] : Cardinality({i \in 1..n : m[i]}) <= MaxFrozen}

\* A MySolver on a board with at least two rows and two columns (on a
\* narrower board solve has no target and never calls find_routes), and the
\* arguments of one find_routes call: any two cells and any mask.
RoutesInit ==
    /\ rows \in 2..RouteMaxCells
    /\ cols \in 2..RouteMaxCells
    /\ rows * cols <= RouteMaxCells
    /\ state = StateNew(rows, cols)
    /\ pc = "find_routes"
    /\ nslides = 0
    /\ ncalls = 0
    /\ call = <<>>
    /\ q = <<>>
    /\ memo = EmptyMap
    /\ ret = NoRet
    /\ ran = {}
    /\ fallback = {}
    /\ my = [MyIdle EXCEPT !.states = state]
    /\ moves = <<>>
    /\ mi = 0
    /\ keys = NoKeys
    /\ click = NoClick
    /\ \E start \in Cells(rows, cols), end \in Cells(rows, cols),
          constraints \in Masks(rows * cols) :
          fr = [start |-> start, end |-> end, constraints |-> constraints,
                routes |-> <<>>]

FindRoutesCall ==
    /\ pc = "find_routes"
    /\ fr' = [fr EXCEPT !.routes = find_routes(my.states, fr.start, fr.end, fr.constraints)]
    /\ pc' = "routes_returned"
    /\ UNCHANGED <<keys, click, rows, cols, state, nslides, ncalls, call, q, memo, ret,
                   ran, fallback, my, moves, mi>>

RoutesNext == FindRoutesCall

SpecRoutes == RoutesInit /\ [][RoutesNext]_vars

\* ---------------------------------------------------------------- manual play
\* main without --ai (lines 520-525): the loop of manual play starts on the
\* shuffled state; the loop at lines 516-518 has left it unfinished.
Manual ==
    /\ pc = "shuffle"
    /\ ~is_finished(state)
    /\ pc' = "manual"
    /\ UNCHANGED <<keys, click, rows, cols, state, nslides, ncalls, call, q,
                   memo, ret, ran, fallback, my, moves, mi, fr>>

\* A frame without the test at lines 532-537: the press is handled on a
\* finished state as on any other.
Click_without_clear_test ==
    /\ pc = "manual"
    /\ \E cell \in Cells(rows, cols) :
          LET move_to == movable_position(state, cell)
          IN  /\ click' = [cell |-> cell, move_to |-> move_to]
              /\ IF move_to = NoCell
                 THEN UNCHANGED <<state, call, pc>>
                 ELSE /\ call' = <<cell, move_to>>
                      /\ IF SwapAssert(state, cell, move_to)
                         THEN /\ state' = swap(state, cell, move_to)
                              /\ pc' = pc
                         ELSE /\ state' = state
                              /\ pc' = "panicked"
    /\ UNCHANGED <<keys, rows, cols, nslides, ncalls, q, memo, ret, ran,
                   fallback, my, moves, mi, fr>>

\* A frame of the loop with the left button pressed on a cell of the board
\* (lines 532-546).  On a finished state the frame ends at the `continue` of
\* line 536 before the mouse is read: the press (kept in click.cell) gets no
\* answer and nothing of the program changes.  Otherwise movable_position is
\* asked and, when it answers Some(move_to), swap(cell, move_to) is called.
Click ==
    /\ pc = "manual"
    /\ IF is_finished(state)
       THEN /\ \E cell \in Cells(rows, cols) :
                  click' = [cell |-> cell, move_to |-> NoCell]
            /\ UNCHANGED <<state, call, pc>>
       ELSE \E cell \in Cells(rows, cols) :
               LET move_to == movable_position(state, cell)
               IN  /\ click' = [cell |-> cell, move_to |-> move_to]
                   /\ IF move_to = NoCell
                      THEN UNCHANGED <<state, call, pc>>
                      ELSE /\ call' = <<cell, move_to>>
                           /\ IF SwapAssert(state, cell, move_to)
                              THEN /\ state' = swap(state, cell, move_to)
                                   /\ pc' = pc
                              ELSE /\ state' = state
                                   /\ pc' = "panicked"
    /\ UNCHANGED <<keys, rows, cols, nslides, ncalls, q, memo, ret, ran,
                   fallback, my, moves, mi, fr>>

ManualNext == New \/ ShuffleStep \/ Manual \/ Click

SpecManual == Init /\ [][ManualNext]_vars

\* ------------------------------------------------------------- MySolver alone
\* Boards of SpecMy have at most MyMaxCells cells, and shuffle's loop is cut
\* at MyShuffle passes.
MyMaxCells == 8
MyShuffle == 3

MyInit ==
    /\ rows \in 1..MyMaxCells
    /\ cols \in 1..MyMaxCells
    /\ rows * cols <= MyMaxCells
    /\ state = NoState
    /\ pc = "new"
    /\ nslides = 0
    /\ ncalls = 0
    /\ call = <<>>
    /\ q = <<>>
    /\ memo = EmptyMap
    /\ ret = NoRet
    /\ ran = {}
    /\ fallback = {}
    /\ my = MyIdle
    /\ moves = <<>>
    /\ mi = 0
    /\ fr = NoCall
    /\ keys = NoKeys
    /\ click = NoClick

\* A pass of shuffle's loop, within the passes of SpecMy.
MyShuffleStep ==
    /\ nslides < MyShuffle
    /\ ShuffleStep

MyNext == New \/ MyShuffleStep \/ MySolve \/ MySolveLoop \/ MoveToLoop

SpecMy == MyInit /\ [][MyNext]_vars

\* --------------------------------------------------------- state_string alone
\* Boards of SpecKeys have at most KeyMaxCells cells.
KeyMaxCells == 3

\* The entries the two piece vectors are drawn from: None (0) and pieces of
\* one, two and three digits.
PieceSamples == {0, 1, 10, 101, 110}

\* A State of an r x co board with the vector p; blank_cell is the cell of its
\* first None (state_string does not read it).
StateOf(p, r, co) ==
    LET s0 == [pieces |-> p, rows |-> r, cols |-> co, blank_cell |-> NoCell]
    IN  [s0 EXCEPT !.blank_cell = find_piece(s0, 0)]

\* Two State values of the same board, with any entries: state_string reads
\* nothing but pieces.
KeysInit ==
    /\ rows \in 1..KeyMaxCells
    /\ cols \in 1..KeyMaxCells
    /\ rows * cols <= KeyMaxCells
    /\ state = NoState
    /\ pc = "state_string"
    /\ nslides = 0
    /\ ncalls = 0
    /\ call = <<>>
    /\ q = <<>>
    /\ memo = EmptyMap
    /\ ret = NoRet
    /\ ran = {}
    /\ fallback = {}
    /\ my = MyIdle
    /\ moves = <<>>
    /\ mi = 0
    /\ fr = NoCall
    /\ click = NoClick
    /\ \E pa \in [1..(rows * cols) -> PieceSamples],
          pb \in [1..(rows * cols) -> PieceSamples] :
          keys = [a  |-> StateOf(pa, rows, cols),
                  b  |-> StateOf(pb, rows, cols),
                  sa |-> <<>>,
                  sb |-> <<>>]

\* a.state_string() and b.state_string()
KeysCall ==
    /\ pc = "state_string"
    /\ keys' = [keys EXCEPT !.sa = state_string(keys.a),
                            !.sb = state_string(keys.b)]
    /\ pc' = "keys_returned"
    /\ UNCHANGED <<click, rows, cols, state, nslides, ncalls, call, q, memo,
                   ret, ran, fallback, my, moves, mi, fr>>

KeysNext == KeysCall

SpecKeys == KeysInit /\ [][KeysNext]_vars

\* ============================================================== properties
\* Two cells are 4-adjacent.
Adjacent(a, b) == Abs(a[1] - b[1]) + Abs(a[2] - b[2]) = 1

\* The state after swap(blank_cell, target) for the targets ms[lo..hi] in order.
RECURSIVE ApplyRange(_, _, _, _)
ApplyRange(s, ms, lo, hi) ==
    IF lo > hi THEN s
    ELSE IF lo = hi THEN swap(s, s.blank_cell, ms[lo])
    ELSE LET mid == (lo + hi) \div 2
         IN  ApplyRange(ApplyRange(s, ms, lo, mid), ms, mid + 1, hi)

ApplyAll(s, ms) == ApplyRange(s, ms, 1, Len(ms))

\* Every target of ms is 4-adjacent to the blank at the moment it is applied.
LegalSlides(s, ms) ==
    \A i \in 1..Len(ms) : Adjacent(ApplyRange(s, ms, 1, i - 1).blank_cell, ms[i])

\* The states one legal slide away from those of S, and S itself.
SlideOnce(S) ==
    S \cup UNION {{swap(s, s.blank_cell, c) :
                      c \in {d \in Cells(rows, cols) : Adjacent(d, s.blank_cell)}} :
                  s \in S}

\* The least number of legal slides from a state of S to the arrangement
\* goal, plus k; -1 when more than MaxShuffle would be needed.
RECURSIVE MinSlidesFrom(_, _, _)
MinSlidesFrom(S, goal, k) ==
    IF \E s \in S : s.pieces = goal
    THEN k
    ELSE IF k >= MaxShuffle + 1
    THEN 0 - 1
    ELSE MinSlidesFrom(SlideOnce(S), goal, k + 1)

MinSlides(s) == MinSlidesFrom({s}, StateNew(s.rows, s.cols).pieces, 0)

\* C1: while the State interface is used (swap calls that pass the assertion,
\* shuffle passes), pieces has rows*cols entries, holds each piece
\* 1..rows*cols-1 once and one blank, and blank_cell is the blank's cell.
C1_StateWellFormed ==
    (state # NoState /\ rows * cols >= 2) =>
        /\ Len(state.pieces) = rows * cols
        /\ \A k \in 1..(rows * cols - 1) :
              Cardinality({i \in 1..Len(state.pieces) : state.pieces[i] = k}) = 1
        /\ Cardinality({i \in 1..Len(state.pieces) : state.pieces[i] = 0}) = 1
        /\ state.blank_cell \in Cells(rows, cols)
        /\ state.pieces[state.blank_cell[2] * cols + state.blank_cell[1] + 1] = 0

\* C1 witness: after a shuffle pass and a direct swap call that named the
\* blank second and a cell not adjacent to it first.
C1_Witness ==
    /\ pc = "shuffle"
    /\ rows = 2 /\ cols = 3
    /\ nslides >= 1 /\ ncalls >= 1
    /\ Len(call) = 2
    /\ call[1] # call[2]
    /\ ~Adjacent(call[1], call[2])
    /\ state.blank_cell = call[1]

\* C2: the routes BFSSolver returns for a state reached by slides are legal
\* slides in order, end in the solved arrangement, are as many as the least
\* number of slides to it, and are none exactly when the state is solved.
C2_BFSShortest ==
    (pc = "returned" /\ "bfs" \in ran) =>
        /\ LegalSlides(state, ret.bfs)
        /\ is_finished(ApplyAll(state, ret.bfs))
        /\ Len(ret.bfs) = MinSlides(state)
        /\ (Len(ret.bfs) = 0) <=> is_finished(state)

\* C2 witness: BFSSolver has returned six or more moves for a 2x3 state that
\* the shuffle reached by a longer walk.
C2_Witness ==
    /\ pc = "returned" /\ ran = {"bfs"}
    /\ rows = 2 /\ cols = 3
    /\ Len(ret.bfs) >= 6
    /\ Len(ret.bfs) < nslides

\* C3 (as stated): for the same state AStarSolver and BFSSolver return routes
\* of equal length, and either leads to a finished state.
C3_AStarAsShortAsBFS ==
    (pc = "returned" /\ ran = {"bfs", "astar"}) =>
        /\ Len(ret.astar) = Len(ret.bfs)
        /\ is_finished(ApplyAll(state, ret.astar))
        /\ is_finished(ApplyAll(state, ret.bfs))

\* C4 (as stated): every target MySolver returns is 4-adjacent to the blank
\* when it is applied in order from the state the solver was given.
C4_MySolverMovesAdjacent ==
    (pc = "returned" /\ "my" \in ran) => LegalSlides(state, ret.my)

\* C5: a swap call panics exactly when neither argument is the blank cell,
\* and a panicking call leaves pieces and blank_cell as they were.
SwapCallOutcome ==
    ncalls' = ncalls + 1 =>
        /\ (pc' = "panicked") <=>
              (state.blank_cell # call'[1] /\ state.blank_cell # call'[2])
        /\ (pc' = "panicked") =>
              (state'.pieces = state.pieces /\ state'.blank_cell = state.blank_cell)

C5_SwapPanicsIffNoBlank == [][SwapCallOutcome]_vars

\* C5 witness: a swap call has panicked on a state that earlier calls had
\* changed.
C5_Witness ==
    /\ pc = "panicked"
    /\ ncalls >= 2
    /\ state # NoState
    /\ state.pieces # StateNew(rows, cols).pieces

\* C6: on the fresh 2x2 board swap((1,1),(0,1)) gives pieces [1,2,blank,3]
\* with the blank at (0,1), not finished, and BFSSolver returns [(1,1)] for it.
C6_Scenario2x2 ==
    (rows = 2 /\ cols = 2 /\ nslides = 1 /\ call = << <<1, 1>>, <<0, 1>> >>) =>
        /\ pc = "shuffle" =>
              /\ state.pieces = <<1, 2, 0, 3>>
              /\ state.blank_cell = <<0, 1>>
              /\ ~is_finished(state)
        /\ (pc = "returned" /\ "bfs" \in ran) => ret.bfs = << <<1, 1>> >>

\* C6 witness: BFSSolver has returned for that 2x2 state.
C6_Witness ==
    /\ rows = 2 /\ cols = 2 /\ nslides = 1
    /\ call = << <<1, 1>>, <<0, 1>> >>
    /\ pc = "returned" /\ ran = {"bfs"}

\* C7: on a board of two or more cells the state State::new returns is
\* finished, holds piece k at index k-1, and its only blank cell is the last
\* cell (cols-1, rows-1), which is blank_cell.
C7_NewIsSolved ==
    (pc = "shuffle" /\ nslides = 0 /\ rows * cols >= 2) =>
        /\ is_finished(state)
        /\ \A k \in 1..(rows * cols - 1) : state.pieces[k] = k
        /\ {i \in 1..Len(state.pieces) : state.pieces[i] = 0} = {rows * cols}
        /\ state.blank_cell = <<cols - 1, rows - 1>>

\* C7 witness: a fresh board that is not square.
C7_Witness ==
    /\ pc = "shuffle" /\ nslides = 0
    /\ rows = 2 /\ cols = 3

\* C8 (as stated): with rows = 0, cols = 0 or rows*cols < 2 construction is
\* rejected: main never gets past State::new.
C8_DegenerateRejected ==
    (rows = 0 \/ cols = 0 \/ rows * cols < 2) => pc \in {"new", "panicked"}

\* C9 (as stated): while MySolver.solve runs, a cell marked in moved stays
\* marked and keeps its content.
FrozenKept ==
    pc \in {"my", "move_to"} =>
        \A i \in 1..Len(my.moved) :
            my.moved[i] => (my'.moved[i] /\ my'.states.pieces[i] = my.states.pieces[i])

C9_FrozenStays == [][FrozenKept]_vars

\* The cells reached from those of R by one step onto an unfrozen cell, and R.
StepOnce(R, mask) ==
    R \cup {c \in Cells(rows, cols) :
               /\ ~mask[c[2] * cols + c[1] + 1]
               /\ \E d \in R : Adjacent(c, d)}

\* The least number of steps over unfrozen cells from a cell of R to end, plus
\* k; -1 when there is no such path.
RECURSIVE GridDistFrom(_, _, _, _)
GridDistFrom(R, end, mask, k) ==
    IF end \in R
    THEN k
    ELSE IF StepOnce(R, mask) = R
    THEN 0 - 1
    ELSE GridDistFrom(StepOnce(R, mask), end, mask, k + 1)

\* C10: find_routes returns a path of 4-adjacent steps from start that ends
\* at end, steps on no frozen cell and is as short as any such path (as long
\* as the Manhattan distance when nothing is frozen); it returns no cell when
\* there is no such path.
C10_FindRoutesShortest ==
    pc = "routes_returned" =>
        LET r == fr.routes
            d == GridDistFrom({fr.start}, fr.end, fr.constraints, 0)
        IN  /\ d < 0 => Len(r) = 0
            /\ d >= 0 =>
                  /\ Len(r) = d
                  /\ \A i \in 1..Len(r) :
                        /\ Adjacent(IF i = 1 THEN fr.start ELSE r[i - 1], r[i])
                        /\ ~fr.constraints[r[i][2] * cols + r[i][1] + 1]
                  /\ Len(r) > 0 => r[Len(r)] = fr.end
            /\ (\A i \in 1..Len(fr.constraints) : ~fr.constraints[i]) =>
                  Len(r) = Abs(fr.start[1] - fr.end[1]) + Abs(fr.start[2] - fr.end[2])

\* C10 witness: a route longer than the Manhattan distance, around frozen
\* cells.
C10_Witness ==
    /\ pc = "routes_returned"
    /\ Len(fr.routes) > Abs(fr.start[1] - fr.end[1]) + Abs(fr.start[2] - fr.end[2])

\* C11: a pass of shuffle's loop on a board of two or more cells swaps the
\* blank with an in-bounds cell 4-adjacent to it; sliding the blank back to
\* the cell it left restores the state before the pass; and the solved state
\* is reachable from the state after the pass by no more legal slides than
\* passes made.
ShuffleSlideReversible ==
    (nslides' = nslides + 1 /\ rows * cols >= 2) =>
        /\ state'.blank_cell \in Cells(rows, cols)
        /\ Adjacent(state.blank_cell, state'.blank_cell)
        /\ state' = swap(state, state.blank_cell, state'.blank_cell)
        /\ swap(state', state'.blank_cell, state.blank_cell) = state
        /\ MinSlides(state') >= 0
        /\ MinSlides(state') <= nslides'

C11_ShuffleReversible == [][ShuffleSlideReversible]_vars

\* C11 witness: a 3x2 state after five or more passes of shuffle that is at
\* least three slides from solved.
C11_Witness ==
    /\ pc = "shuffle"
    /\ rows = 3 /\ cols = 2
    /\ nslides >= 5
    /\ MinSlides(state) >= 3

\* C12: for two states of the same board, the Strings state_string returns
\* are equal exactly when the two pieces vectors are equal.
C12_StateStringInjective ==
    pc = "keys_returned" =>
        ((keys.sa = keys.sb) <=> (keys.a.pieces = keys.b.pieces))

\* C12 witness: the vectors [101, 10] and [10, 110], whose fields hold the
\* same digits in the same order, have got their Strings.
C12_Witness ==
    /\ pc = "keys_returned"
    /\ keys.a.pieces = <<101, 10>>
    /\ keys.b.pieces = <<10, 110>>
    /\ keys.sa # keys.sb

\* movable_position answers Some(blank_cell) for the cells 4-adjacent to the
\* blank and None for every other cell of the board, the blank's included.
MovableIffAdjacent(s) ==
    \A c \in Cells(s.rows, s.cols) :
        movable_position(s, c) =
            IF Adjacent(c, s.blank_cell) THEN s.blank_cell ELSE NoCell

\* C13: in manual play movable_position answers Some(blank_cell) exactly for
\* the cells 4-adjacent to the blank; a click leaves the state as it was or
\* slides the clicked cell, adjacent to the blank, into the blank; and swap
\* never panics.
ClickOutcome ==
    pc = "manual" =>
        /\ MovableIffAdjacent(state)
        /\ MovableIffAdjacent(state')
        /\ pc' = "manual"
        /\ \/ state' = state /\ click'.move_to = NoCell
           \/ /\ click'.move_to = state.blank_cell
              /\ Adjacent(click'.cell, state.blank_cell)
              /\ state' = swap(state, state.blank_cell, click'.cell)
              /\ state'.blank_cell = click'.cell

C13_ClickIsLegalSlide == [][ClickOutcome]_vars

\* C13 witness: on a 2x3 board a click has slid a piece and the latest click,
\* on a cell away from the blank, has changed nothing.
C13_Witness ==
    /\ pc = "manual"
    /\ rows = 2 /\ cols = 3
    /\ Len(call) = 2 /\ call[2] # state.blank_cell
    /\ state.blank_cell = call[1]
    /\ click.cell # NoCell
    /\ click.move_to = NoCell
    /\ click.cell # state.blank_cell
    /\ ~is_finished(state)

\* C14: on every state met in manual play (every arrangement reachable on
\* the board), is_finished holds exactly when the blank is at the last cell
\* and every piece k is at index k-1, and BFSSolver's test (pieces equal to
\* those of State::new) and AStarSolver's test (cost equal to max_cost) hold
\* for exactly the same states.
C14_GoalTestsAgree ==
    state # NoState =>
        LET goal   == StateNew(rows, cols)
            placed == /\ state.blank_cell = <<cols - 1, rows - 1>>
                      /\ \A k \in 1..(rows * cols - 1) : state.pieces[k] = k
        IN  /\ is_finished(state) <=> placed
            /\ (state.pieces = goal.pieces) <=> placed
            /\ (max_cost - heuristic(goal, state) = max_cost) <=> placed

\* C14 witness: manual play has brought the blank back to the last cell of a
\* 2x3 board whose pieces are not in place.
C14_Witness ==
    /\ pc = "manual"
    /\ rows = 2 /\ cols = 3
    /\ state.blank_cell = <<2, 1>>
    /\ state.pieces # StateNew(rows, cols).pieces

\* C15 (as stated): for a state reached by slides, heuristic(goal, state) is
\* at most the least number of legal slides from the state to the goal.
C15_HeuristicAdmissible ==
    (pc = "shuffle" /\ rows * cols >= 2) =>
        heuristic(StateNew(rows, cols), state) <= MinSlides(state)

\* C16 (as stated): when MySolver.solve marks a target frozen and goes on to
\* the next one (lines 206-207, or line 215 after move_to), the target cell
\* holds the piece numbered by its index + 1.
FrozenIsCorrect ==
    (pc \in {"my", "move_to"} /\ my'.ti = my.ti + 1) =>
        LET idx == get_index(my.states, my.targets[my.ti + 1])
        IN  /\ my'.moved[idx + 1]
            /\ my'.states.pieces[idx + 1] = idx + 1

C16_FrozenHoldsCorrectPiece == [][FrozenIsCorrect]_vars

\* C17 (as stated): while MySolver.solve runs, a find_routes call whose start
\* differs from its end returns a route: the call for the piece at line 225
\* and the call for the blank at line 228, made with the piece's cell blocked.
RoutesFound ==
    /\ (pc = "my" /\ pc' = "move_to") =>
          (my'.current # my.targets[my.ti + 1] => Len(my'.routes) > 0)
    /\ (pc = "move_to" /\ Len(my.routes) > 0) =>
          LET next    == Head(my.routes)
              blocked == [my.moved EXCEPT ![get_index(my.states, my.current) + 1] = TRUE]
          IN  my.states.blank_cell # next =>
                  Len(find_routes(my.states, my.states.blank_cell, next, blocked)) > 0

C17_RoutingFindsPath == [][RoutesFound]_vars

\* C18 (as stated): when MySolver.solve has returned, every target of the
\* visitation order (every layer's row, then its column) is frozen and holds
\* the piece numbered by its index + 1.
C18_AllTargetsPlaced ==
    (pc = "returned" /\ "my" \in ran) =>
        LET ts == AllTargets(my.states)
        IN  \A k \in 1..Len(ts) :
                LET idx == get_index(my.states, ts[k])
                IN  /\ my.moved[idx + 1]
                    /\ my.states.pieces[idx + 1] = idx + 1

\* C19 (as stated): in BFSSolver and AStarSolver a dequeued entry whose key
\* is in memo with a length less than or equal to the length of the entry's
\* routes is not expanded: the pass pushes nothing and leaves memo alone.
MemoSkipsEqualOrShorter ==
    /\ (pc = "bfs" /\ Len(q) > 0) =>
          LET e == Head(q)
              s == state_string(e.state)
          IN  (s \in DOMAIN memo /\ memo[s] <= Len(e.routes)) =>
                  (q' = Tail(q) /\ memo' = memo)
    /\ (pc = "astar" /\ Len(q) > 0) =>
          LET p == HeapPop(q)
              s == state_string(p.item.state)
          IN  (s \in DOMAIN memo /\ memo[s] <= Len(p.item.routes)) =>
                  (q' = p.data /\ memo' = memo)

C19_MemoSkip == [][MemoSkipsEqualOrShorter]_vars

\* C20: a BFSSolver.solve or AStarSolver.solve started on a state reached by
\* slides returns, by the return inside its loop and not by the `vec![]` after
\* it, and the routes returned lead from the state to a finished one.
C20_SolversTerminate ==
    /\ (pc = "bfs") ~>
          (/\ pc = "returned"
           /\ "bfs" \in ran
           /\ "bfs" \notin fallback
           /\ is_finished(ApplyAll(state, ret.bfs)))
    /\ (pc = "astar") ~>
          (/\ pc = "returned"
           /\ "astar" \in ran
           /\ "astar" \notin fallback
           /\ is_finished(ApplyAll(state, ret.astar)))

\* C20 witness: both solvers have returned for a 2x3 state six or more slides
\* from solved, neither by the fallback.
C20_Witness ==
    /\ pc = "returned"
    /\ ran = {"bfs", "astar"}
    /\ fallback = {}
    /\ rows = 2 /\ cols = 3
    /\ Len(ret.bfs) >= 6
    /\ Len(ret.astar) >= Len(ret.bfs)

\* A frame of manual play on a finished state leaves the state as it is,
\* and manual play is entered on an unfinished state that it takes as it is.
SolvedIsAbsorbing ==
    /\ (pc = "manual" /\ is_finished(state)) =>
          /\ state'.pieces = state.pieces
          /\ state'.blank_cell = state.blank_cell
          /\ is_finished(state')
          /\ pc' = "manual"
    /\ (pc # "manual" /\ pc' = "manual") =>
          /\ pc = "shuffle"
          /\ ~is_finished(state)
          /\ state' = state

\* C21: manual play starts only from a state for which is_finished() is
\* false, and once is_finished() is true in manual play no later mouse press
\* changes pieces or blank_cell.
C21_SolvedIsAbsorbing == [][SolvedIsAbsorbing]_vars

\* Manual play has solved a 2x3 board that was shuffled, and a press on a
\* piece next to the blank has then gone unanswered.
C21_Witness ==
    /\ pc = "manual"
    /\ rows = 2
    /\ cols = 3
    /\ nslides >= 2
    /\ is_finished(state)
    /\ click.cell # NoCell
    /\ Adjacent(click.cell, state.blank_cell)
    /\ click.move_to = NoCell
====
